---- MODULE Spec2Model ----
(***************************************************************************)
(* Model of the GNAME libdns provider (package gname): the Provider's      *)
(* GetRecords / AppendRecords / SetRecords / DeleteRecords handlers, the   *)
(* transport MakeApiRequestWithClient and the record mapper, running       *)
(* against a vendor zone.  One action is one step of a handler up to and   *)
(* including the API call it makes.                                        *)
(*                                                                         *)
(* Values that are used more than once are passed as operator parameters   *)
(* rather than bound by LET, which keeps the expanded next-state relation  *)
(* small.                                                                  *)
(***************************************************************************)
EXTENDS Integers, Sequences, FiniteSets, TLC

\* ------------------------------------------------------------------ bounds
\* The work one behaviour may spend: a Provider call costs one unit plus one
\* unit per record of its batch.
MaxWork == 3

\* Longest batch of a concurrent SetRecords call.
MaxConcBatch == 1

\* Number of goroutines calling getHTTPClient concurrently.
MaxCallers == 3

\* Longest vendor TTL string enumerated in full.
MaxTTLLen == 2

\* Longest zone string, in labels and dots.
MaxZoneLen == 4

\* Latest Unix time at which a request is signed.
MaxStamp == 2

\* Longest record name formatted into a params string.
MaxNameLen == 3

\* Longest response body, in bytes.
MaxBodyLen == 2

\* --------------------------------------------------------- program constants
DefaultTTL == 600
StatusOK == 200
EnvelopeOK == 1

\* --------------------------------------------------------- integers modelled
\* Stands for every int of ten decimal digits and more.
LargeInt == 1000000000

\* Stands for an int64 product that wrapped around; the first wrapped products
\* of a number of seconds and time.Second are negative.
WrappedDuration == -1

\* ------------------------------------------------------------ input domains
Digits == <<"0", "1", "2", "3", "4", "5", "6", "7", "8", "9">>

\* Strings that the code inspects piecewise (zone names, TTL strings) are
\* sequences of string pieces.
ZoneArgs == {<<"example.com">>, <<"example.com", ".">>}

\* libdns.RR values handed in by the caller.
InputRR ==
    { [Name |-> "www", Type |-> "A",   Data |-> "2.2.2.2", TTL |-> 300],
      [Name |-> "www", Type |-> "A",   Data |-> "1.1.1.1", TTL |-> 120],
      [Name |-> "api", Type |-> "A",   Data |-> "1.1.1.1", TTL |-> 300],
      [Name |-> "www", Type |-> "TXT", Data |-> "hello",   TTL |-> 300] }

\* The records arguments: every sequence of input records a call can afford.
Batches == UNION {[1..n -> InputRR] : n \in 0..(MaxWork - 1)}

\* ------------------------------------------------------------ pure helpers
\* The normalisation dropping the last piece of the zone whatever it is.
libdnsZoneToDnslaDomain_DropsLast(zone) ==
    IF Len(zone) > 0 THEN SubSeq(zone, 1, Len(zone) - 1) ELSE zone

\* strings.TrimSuffix(zone, ".")
libdnsZoneToDnslaDomain(zone) ==
    IF Len(zone) > 0 /\ zone[Len(zone)] = "." THEN SubSeq(zone, 1, Len(zone) - 1) ELSE zone

DigitVal(c) == (CHOOSE i \in 1..10 : Digits[i] = c) - 1
IsDigit(c) == \E i \in 1..10 : Digits[i] = c

RECURSIVE DigitsVal(_)
DigitsVal(s) ==
    IF Len(s) = 0 THEN 0 ELSE 10 * DigitsVal(SubSeq(s, 1, Len(s) - 1)) + DigitVal(s[Len(s)])

\* The largest int and the magnitude of the smallest int (64 bits), and the
\* largest whole number of seconds a time.Duration (an int64 of nanoseconds)
\* holds, in decimal digits.
MaxIntDigits ==
    <<"9", "2", "2", "3", "3", "7", "2", "0", "3", "6",
      "8", "5", "4", "7", "7", "5", "8", "0", "7">>

MinIntDigits ==
    <<"9", "2", "2", "3", "3", "7", "2", "0", "3", "6",
      "8", "5", "4", "7", "7", "5", "8", "0", "8">>

MaxSecondsDigits == <<"9", "2", "2", "3", "3", "7", "2", "0", "3", "6">>

\* A digit string without its leading zeros.
RECURSIVE StripZeros(_)
StripZeros(s) == IF Len(s) > 1 /\ s[1] = "0" THEN StripZeros(Tail(s)) ELSE s

\* a < b, for digit strings without leading zeros.
DigitsLess(a, b) ==
    \/ Len(a) < Len(b)
    \/ /\ Len(a) = Len(b)
       /\ \E i \in 1..Len(a) :
            /\ DigitVal(a[i]) < DigitVal(b[i])
            /\ \A j \in 1..(i - 1) : a[j] = b[j]

\* The int with the digits mag; ints of ten digits and more, which the model's
\* integers do not hold, all count as LargeInt.
IntOf(mag) == IF Len(mag) < 10 THEN DigitsVal(mag) ELSE LargeInt

\* The digits of a decimal string after its optional sign and leading zeros.
Magnitude(s) ==
    StripZeros(IF Len(s) > 0 /\ s[1] \in {"+", "-"} THEN Tail(s) ELSE s)

\* strconv.Atoi on the digits that follow the optional sign: a syntax error,
\* a range error when the value does not fit an int, or the value.
AtoiBody(negative, body) ==
    IF Len(body) = 0 \/ \E i \in 1..Len(body) : ~IsDigit(body[i])
    THEN [ok |-> FALSE, val |-> 0]
    ELSE IF DigitsLess(IF negative THEN MinIntDigits ELSE MaxIntDigits, StripZeros(body))
    THEN [ok |-> FALSE, val |-> 0]
    ELSE [ok |-> TRUE, val |-> IF negative THEN 0 - IntOf(StripZeros(body))
                                           ELSE IntOf(StripZeros(body))]

\* strconv.Atoi: optional sign, then one or more decimal digits.
Atoi(s) ==
    IF Len(s) > 0 /\ s[1] \in {"+", "-"}
    THEN AtoiBody(s[1] = "-", SubSeq(s, 2, Len(s)))
    ELSE AtoiBody(FALSE, s)

\* fmt "%.0f" of rr.TTL.Seconds() for a whole, non-negative number of seconds.
RECURSIVE FormatSeconds(_)
FormatSeconds(n) ==
    IF n < 10 THEN <<Digits[n + 1]>> ELSE Append(FormatSeconds(n \div 10), Digits[(n % 10) + 1])

\* time.Duration(parsedTTL) * time.Second, in seconds: the int64 product wraps
\* around when parsedTTL, whose digits are mag, exceeds the seconds a Duration
\* holds.
SecondsDuration(parsedTTL, mag) ==
    IF DigitsLess(MaxSecondsDigits, mag) THEN WrappedDuration ELSE parsedTTL

\* The TTL toLibdnsRecord chooses, given the vendor's TTL string and what
\* strconv.Atoi made of it.
ChooseTTL(ttl, parsed) ==
    IF ttl # <<>> /\ parsed.ok /\ parsed.val > 0
    THEN SecondsDuration(parsed.val, Magnitude(ttl))
    ELSE DefaultTTL

\* DomainResolutionRecord.toLibdnsRecord: the result is a libdns.RR, which has
\* no ID field.
toLibdnsRecord(record) ==
    [dyn  |-> "libdns.RR",
     Name |-> record.Zjt,
     Type |-> record.Lx,
     Data |-> record.Jxz,
     TTL  |-> ChooseTTL(record.TTL, Atoi(record.TTL))]

\* The four fields of a libdns.RR.
RRFields(m) == [Name |-> m.Name, Type |-> m.Type, Data |-> m.Data, TTL |-> m.TTL]

\* record.RR() of an element of a []libdns.Record.
RROf(rec) == RRFields(IF rec.dyn = "libdns.RR" THEN rec ELSE toLibdnsRecord(rec))

\* dnslaRec, ok := rec.(DomainResolutionRecord); the ID when ok, "" otherwise.
AssertedID(rec) == IF rec.dyn = "DomainResolutionRecord" THEN rec.ID ELSE ""

\* ------------------------------------------------------------- vendor side
APPID == "Your_APPID"

\* A record as the vendor hosts and lists it (DomainResolutionRecord).
VendorRecord(id, name, type, value, ttl) ==
    [dyn |-> "DomainResolutionRecord", ID |-> id, Zjt |-> name, Lx |-> type,
     Jxz |-> value, TTL |-> ttl]

InitZones ==
    { <<>>,
      <<VendorRecord("1", "www", "A", "1.1.1.1", <<"6", "0", "0">>)>>,
      <<VendorRecord("1", "www", "A", "1.1.1.1", <<>>),
        VendorRecord("2", "www", "A", "2.2.2.2", <<"1", "2", "0">>)>> }

\* What the environment decides about one API call: the time zone database is
\* missing, the parameters cannot be joined, the round trip fails, or the
\* vendor answers with a status and a body.
Outcomes ==
    { [k |-> "tz"], [k |-> "join"], [k |-> "do"],
      [k |-> "resp", status |-> 200, wf |-> TRUE,  code |-> 1, msg |-> "ok",            fits |-> TRUE],
      [k |-> "resp", status |-> 200, wf |-> TRUE,  code |-> 0, msg |-> "invalid appid", fits |-> TRUE],
      [k |-> "resp", status |-> 200, wf |-> TRUE,  code |-> 1, msg |-> "ok",            fits |-> FALSE],
      [k |-> "resp", status |-> 200, wf |-> FALSE, code |-> 0, msg |-> "",              fits |-> FALSE],
      [k |-> "resp", status |-> 201, wf |-> TRUE,  code |-> 1, msg |-> "ok",            fits |-> TRUE],
      [k |-> "resp", status |-> 500, wf |-> TRUE,  code |-> 0, msg |-> "server error",  fits |-> TRUE] }

RemoveAt(s, i) == SubSeq(s, 1, i - 1) \o SubSeq(s, i + 1, Len(s))

IndexOfID(z, id) ==
    IF \E i \in 1..Len(z) : z[i].ID = id
    THEN CHOOSE i \in 1..Len(z) : z[i].ID = id /\ \A j \in 1..(i - 1) : z[j].ID # id
    ELSE 0

\* The zone after an edit (the record at index i replaced) or a delete (the
\* record at index i removed); i = 0 when the vendor has no record of that ID.
VendorChange(z, req, i) ==
    IF i = 0 THEN z
    ELSE IF req.ep = "edit"
    THEN [z EXCEPT ![i] = VendorRecord(req.jxid, req.zj, req.lx, req.jlz, req.ttl)]
    ELSE RemoveAt(z, i)

\* The vendor applies a request exactly when it answers with envelope code 1;
\* it does not enforce (name, type) uniqueness on add.
VendorApply(z, nid, req, o) ==
    IF ~(o.k = "resp" /\ o.wf /\ o.code = EnvelopeOK) \/ req.ep = "list"
    THEN [zone |-> z, nextId |-> nid]
    ELSE IF req.ep = "add"
    THEN [zone |-> Append(z, VendorRecord(ToString(nid), req.zj, req.lx, req.jlz, req.ttl)),
          nextId |-> nid + 1]
    ELSE [zone |-> VendorChange(z, req, IndexOfID(z, req.jxid)), nextId |-> nid]

\* The response body the vendor sends: an envelope {code, msg, data}, or bytes
\* that are not JSON.
VendorBody(z, nid, req, o) ==
    IF ~o.wf THEN [wf |-> FALSE, raw |-> "<html>"]
    ELSE [wf |-> TRUE, code |-> o.code, msg |-> o.msg, fits |-> o.fits,
          data |-> IF o.code # EnvelopeOK THEN <<>>
                   ELSE IF req.ep = "list" THEN z
                   ELSE IF req.ep = "add" THEN <<nid>>
                   ELSE <<>>]

\* The response the client receives, when there is one.
VendorResponse(z, nid, req, o) ==
    IF o.k = "resp"
    THEN [status |-> o.status, body |-> VendorBody(z, nid, req, o)]
    ELSE [status |-> 0]

\* ---------------------------------------------------------------- transport
NoErr == [kind |-> "none"]
Wrap(e, ctx) == [e EXCEPT !.wrap = <<ctx>> \o @]

\* The zero value of the payload type passed as responseType.
ZeroPayload == [Code |-> 0, Msg |-> "", Data |-> <<>>]

\* MakeApiRequestWithClient without the check of the envelope code.
MakeApiRequestWithClient_NoCodeCheck(o, resp, responseType) ==
    IF o.k = "tz"
    THEN [payload |-> responseType, err |-> [kind |-> "config", wrap |-> <<"failed to load timezone">>]]
    ELSE IF o.k = "join"
    THEN [payload |-> responseType, err |-> [kind |-> "encoding", wrap |-> <<"failed to join parameters">>]]
    ELSE IF o.k = "do"
    THEN [payload |-> responseType, err |-> [kind |-> "network", wrap |-> <<"failed to execute request">>]]
    ELSE IF resp.status # StatusOK
    THEN [payload |-> responseType,
          err |-> [kind |-> "transport", status |-> resp.status, body |-> resp.body,
                   wrap |-> <<"API request failed with status">>]]
    ELSE IF ~resp.body.wf
    THEN [payload |-> responseType, err |-> [kind |-> "json", wrap |-> <<"failed to parse common response">>]]
    ELSE IF ~resp.body.fits
    THEN [payload |-> responseType, err |-> [kind |-> "json", wrap |-> <<"failed to parse response">>]]
    ELSE [payload |-> [Code |-> resp.body.code, Msg |-> resp.body.msg, Data |-> resp.body.data],
          err |-> NoErr]

\* MakeApiRequestWithClient accepting every 2xx status.
MakeApiRequestWithClient_Any2xx(o, resp, responseType) ==
    IF o.k = "tz"
    THEN [payload |-> responseType, err |-> [kind |-> "config", wrap |-> <<"failed to load timezone">>]]
    ELSE IF o.k = "join"
    THEN [payload |-> responseType, err |-> [kind |-> "encoding", wrap |-> <<"failed to join parameters">>]]
    ELSE IF o.k = "do"
    THEN [payload |-> responseType, err |-> [kind |-> "network", wrap |-> <<"failed to execute request">>]]
    ELSE IF resp.status < 200 \/ resp.status > 299
    THEN [payload |-> responseType,
          err |-> [kind |-> "transport", status |-> resp.status, body |-> resp.body,
                   wrap |-> <<"API request failed with status">>]]
    ELSE IF ~resp.body.wf
    THEN [payload |-> responseType, err |-> [kind |-> "json", wrap |-> <<"failed to parse common response">>]]
    ELSE IF resp.body.code # EnvelopeOK
    THEN [payload |-> responseType,
          err |-> [kind |-> "api", msg |-> resp.body.msg, code |-> resp.body.code,
                   wrap |-> <<"API error">>]]
    ELSE IF ~resp.body.fits
    THEN [payload |-> responseType, err |-> [kind |-> "json", wrap |-> <<"failed to parse response">>]]
    ELSE [payload |-> [Code |-> resp.body.code, Msg |-> resp.body.msg, Data |-> resp.body.data],
          err |-> NoErr]

\* MakeApiRequestWithClient, from the first statement to the return, given what
\* the environment decided (o) and the response received (resp, when o.k = "resp").
MakeApiRequestWithClient(o, resp, responseType) ==
    IF o.k = "tz"
    THEN [payload |-> responseType, err |-> [kind |-> "config", wrap |-> <<"failed to load timezone">>]]
    ELSE IF o.k = "join"
    THEN [payload |-> responseType, err |-> [kind |-> "encoding", wrap |-> <<"failed to join parameters">>]]
    ELSE IF o.k = "do"
    THEN [payload |-> responseType, err |-> [kind |-> "network", wrap |-> <<"failed to execute request">>]]
    ELSE IF resp.status # StatusOK
    THEN [payload |-> responseType,
          err |-> [kind |-> "transport", status |-> resp.status, body |-> resp.body,
                   wrap |-> <<"API request failed with status">>]]
    ELSE IF ~resp.body.wf
    THEN [payload |-> responseType, err |-> [kind |-> "json", wrap |-> <<"failed to parse common response">>]]
    ELSE IF resp.body.code # EnvelopeOK
    THEN [payload |-> responseType,
          err |-> [kind |-> "api", msg |-> resp.body.msg, code |-> resp.body.code,
                   wrap |-> <<"API error">>]]
    ELSE IF ~resp.body.fits
    THEN [payload |-> responseType, err |-> [kind |-> "json", wrap |-> <<"failed to parse response">>]]
    ELSE [payload |-> [Code |-> resp.body.code, Msg |-> resp.body.msg, Data |-> resp.body.data],
          err |-> NoErr]

\* What one API call leaves behind: the vendor's state, whether the request
\* left the client, the response and what the transport returns.
ApiResult(applied, resp, o) ==
    [zone |-> applied.zone, nextId |-> applied.nextId,
     sent |-> o.k \in {"do", "resp"},
     resp |-> resp,
     res |-> MakeApiRequestWithClient(o, resp, ZeroPayload)]

\* One API call against the vendor.
ApiCall(z, nid, req, o) ==
    ApiResult(VendorApply(z, nid, req, o), VendorResponse(z, nid, req, o), o)

\* Provider.getHTTPClient, run to completion by one caller.
getHTTPClient(client) == IF client # "nil" THEN client ELSE "default"

\* ------------------------------------------------------------------- state
VARIABLES
    zone,        \* the vendor's records of the zone, in listing order
    nextId,      \* the next vendor ID the vendor hands out
    HTTPClient,  \* Provider.HTTPClient: "nil", "custom" or "default"
    work,        \* work spent by the Provider calls started so far
    op,          \* the Provider method running (or that ran last)
    zoneArg,     \* its zone argument
    records,     \* its records argument
    pc,          \* "idle", "list", "loop" or "done"
    idx,         \* index of the next input record to process
    recs,        \* recs, the result of p.GetRecords inside SetRecords/DeleteRecords
    listing,     \* response.Data of the list request of this call
    ret,         \* the record list accumulated, and returned at "done"
    retIdx,      \* for each element of ret, the input record it was appended for
    err,         \* the error returned at "done"
    reqs,        \* the API calls made by this call, in order
    zone0,       \* the zone when the call started
    frames,      \* concurrent SetRecords calls: each goroutine's locals
    trace,       \* the API calls of the concurrent calls, in the order made
    mu,          \* Provider.mu: the goroutines holding it for reading / writing
    gpc,         \* concurrent getHTTPClient calls: each goroutine's position
    got,         \* the client each getHTTPClient call returned
    made,        \* default clients constructed so far
    input,       \* argument of the function under test
    output       \* its result

vars == <<zone, nextId, HTTPClient, work, op, zoneArg, records, pc, idx, recs,
          listing, ret, retIdx, err, reqs, zone0, frames, trace, mu, gpc, got,
          made, input, output>>

\* No goroutines besides the caller, and no function under test.
NoGoroutines ==
    /\ frames = <<>>
    /\ trace = <<>>
    /\ mu = [readers |-> {}, writer |-> 0]
    /\ gpc = <<>>
    /\ got = <<>>
    /\ made = 0

NoFunction ==
    /\ input = <<>>
    /\ output = <<>>

Ops == {"GetRecords", "AppendRecords", "SetRecords", "DeleteRecords"}

Init ==
    /\ zone \in InitZones
    /\ nextId = Len(zone) + 1
    /\ HTTPClient \in {"nil", "custom"}
    /\ work = 0
    /\ op = "none"
    /\ zoneArg = <<>>
    /\ records = <<>>
    /\ pc = "idle"
    /\ idx = 1
    /\ recs = <<>>
    /\ listing = <<>>
    /\ ret = <<>>
    /\ retIdx = <<>>
    /\ err = NoErr
    /\ reqs = <<>>
    /\ zone0 = zone
    /\ NoGoroutines
    /\ NoFunction

\* ------------------------------------------------------- request parameters
ListParams(z) == [ep |-> "list", appid |-> APPID, ym |-> libdnsZoneToDnslaDomain(z)]

AddParams(z, rr) ==
    [ep |-> "add", appid |-> APPID, ym |-> libdnsZoneToDnslaDomain(z),
     lx |-> rr.Type, zj |-> rr.Name, jlz |-> rr.Data, ttl |-> FormatSeconds(rr.TTL)]

EditParams(z, rr, recordId) ==
    [ep |-> "edit", appid |-> APPID, ym |-> libdnsZoneToDnslaDomain(z),
     lx |-> rr.Type, zj |-> rr.Name, jlz |-> rr.Data, ttl |-> FormatSeconds(rr.TTL),
     jxid |-> recordId]

DeleteParams(z, recordId) ==
    [ep |-> "delete", appid |-> APPID, ym |-> libdnsZoneToDnslaDomain(z), jxid |-> recordId]

\* An entry of reqs: the call made for input record i (0 for the listing).
LogEntry(i, req, c, o) ==
    [for |-> i, req |-> req, sent |-> c.sent, out |-> o, resp |-> c.resp, res |-> c.res]

\* ------------------------------------------------------------ handler logic
\* GetRecords after its API call returned res.
GetRecordsResult(res) ==
    IF res.err.kind # "none"
    THEN [recs |-> <<>>, err |-> Wrap(res.err, "failed to get records for zone")]
    ELSE [recs |-> [i \in 1..Len(res.payload.Data) |-> toLibdnsRecord(res.payload.Data[i])],
          err |-> NoErr]

\* recRR.Name == rr.Name && recRR.Type == rr.Type
SameNameType(recRR, rr) == recRR.Name = rr.Name /\ recRR.Type = rr.Type

\* FirstMatch comparing the name only.
FirstMatch_NameOnly(rs, rr) ==
    IF \E i \in 1..Len(rs) : RROf(rs[i]).Name = rr.Name
    THEN CHOOSE i \in 1..Len(rs) :
            /\ RROf(rs[i]).Name = rr.Name
            /\ \A j \in 1..(i - 1) : RROf(rs[j]).Name # rr.Name
    ELSE 0

\* The inner loop of SetRecords/DeleteRecords: index of the first listed record
\* with the name and type of rr, 0 when there is none.
FirstMatch(rs, rr) ==
    IF \E i \in 1..Len(rs) : SameNameType(RROf(rs[i]), rr)
    THEN CHOOSE i \in 1..Len(rs) :
            /\ SameNameType(RROf(rs[i]), rr)
            /\ \A j \in 1..(i - 1) : ~SameNameType(RROf(rs[j]), rr)
    ELSE 0

\* recordId after the inner loop that stopped at index m (0: no match).
MatchedID(rs, m) == IF m = 0 THEN "" ELSE AssertedID(rs[m])

\* SetRecords creating every desired record, listed or not.
SetBranch_AlwaysCreates(m, recordId) == [act |-> "add"]

\* SetRecords leaving a desired record without a listed match alone.
SetBranch_NeverCreates(m, recordId) ==
    IF m = 0 \/ recordId = "" THEN [act |-> "skip"]
    ELSE [act |-> "edit", jxid |-> recordId]

\* The branch SetRecords takes, from hasRecord (m # 0) and recordId.
SetBranch(m, recordId) ==
    IF m = 0 THEN [act |-> "add"]
    ELSE IF recordId = "" THEN [act |-> "skip"]
    ELSE [act |-> "edit", jxid |-> recordId]

\* The branch DeleteRecords takes, from recordId.
DeleteBranch(recordId) ==
    IF recordId = "" THEN [act |-> "skip"] ELSE [act |-> "delete", jxid |-> recordId]

\* SetRecords deciding as if the listing had no match.
SetPlanAt_IgnoresListing(rs, m) == SetBranch(0, "")

SetPlanAt(rs, m) == SetBranch(m, MatchedID(rs, m))

\* SetRecords creating the record when the ID of its match is empty.
SetPlan_UnresolvedAdds(rs, rr) ==
    IF MatchedID(rs, FirstMatch(rs, rr)) = "" THEN [act |-> "add"]
    ELSE [act |-> "edit", jxid |-> MatchedID(rs, FirstMatch(rs, rr))]

\* What SetRecords does for one desired record, decided by hasRecord and recordId.
SetPlan(rs, rr) == SetPlanAt(rs, FirstMatch(rs, rr))

\* DeletePlan without the recordId == "" check: a delete request goes out with
\* whatever ID was found.
DeletePlan_NoSkip(rs, rr) ==
    [act |-> "delete", jxid |-> MatchedID(rs, FirstMatch(rs, rr))]

\* What DeleteRecords does for one target record, decided by recordId.
DeletePlan(rs, rr) == DeleteBranch(MatchedID(rs, FirstMatch(rs, rr)))

\* AppendRecords returning an empty list with the error.
AppendFailure_DropsDone(done, doneIdx, e) ==
    [ret |-> <<>>, retIdx |-> <<>>, err |-> Wrap(e, "failed to append record")]

\* What AppendRecords returns when the add request of its k-th record failed
\* with error e, having appended the records in done before.
AppendFailure(done, doneIdx, e) ==
    [ret |-> done, retIdx |-> doneIdx, err |-> Wrap(e, "failed to append record")]

\* SetRecords/DeleteRecords returning an empty list with the error.
BatchFailure_DropsDone(done, doneIdx, e, ctx) ==
    [ret |-> <<>>, retIdx |-> <<>>, err |-> Wrap(e, ctx)]

\* What SetRecords and DeleteRecords return when the add, edit or delete
\* request of a record failed with error e: the records accumulated so far
\* and the wrapped error.
BatchFailure(done, doneIdx, e, ctx) ==
    [ret |-> done, retIdx |-> doneIdx, err |-> Wrap(e, ctx)]

\* The error return of the loop body that made a request of the given kind.
FailureOf(kind, done, doneIdx, e) ==
    CASE kind = "append" -> AppendFailure(done, doneIdx, e)
      [] kind = "create" -> BatchFailure(done, doneIdx, AppendFailure(<<>>, <<>>, e).err,
                                         "failed to create new record")
      [] kind = "edit"   -> BatchFailure(done, doneIdx, e, "failed to update record")
      [] kind = "delete" -> BatchFailure(done, doneIdx, e, "failed to delete record")

\* Whether the loop body appends the record after a request that returned no
\* error: always after an add, under response.Code == 1 after edit and delete.
Recorded(kind, payload) == kind \in {"append", "create"} \/ payload.Code = 1

NextPc(i) == IF i > Len(records) THEN "done" ELSE "loop"

\* ------------------------------------------------------------------ actions
\* A caller invokes a Provider method.
Call(o, z, rs) ==
    /\ pc \in {"idle", "done"}
    /\ o = "GetRecords" => rs = <<>>
    /\ work + 1 + Len(rs) <= MaxWork
    /\ work' = work + 1 + Len(rs)
    /\ op' = o
    /\ zoneArg' = z
    /\ records' = rs
    /\ pc' = IF o = "AppendRecords" THEN (IF Len(rs) = 0 THEN "done" ELSE "loop") ELSE "list"
    /\ idx' = 1
    /\ recs' = <<>>
    /\ listing' = <<>>
    /\ ret' = <<>>
    /\ retIdx' = <<>>
    /\ err' = NoErr
    /\ reqs' = <<>>
    /\ zone0' = zone
    /\ UNCHANGED <<zone, nextId, HTTPClient>>
    /\ UNCHANGED <<frames, trace, mu, gpc, got, made, input, output>>

\* The effect of an API call c on the vendor, on the Provider's client and on
\* the log of this call.
Exchange(i, req, o, c) ==
    /\ zone' = c.zone
    /\ nextId' = c.nextId
    /\ HTTPClient' = getHTTPClient(HTTPClient)
    /\ reqs' = Append(reqs, LogEntry(i, req, c, o))

\* SetRecords and DeleteRecords going on with an empty listing when
\* p.GetRecords returned an error.
ListReturn_IgnoresError(g) ==
    IF op = "GetRecords"
    THEN /\ ret' = g.recs
         /\ err' = g.err
         /\ pc' = "done"
         /\ recs' = recs
    ELSE /\ ret' = ret
         /\ err' = err
         /\ pc' = NextPc(1)
         /\ recs' = g.recs

\* GetRecords returning g: to the caller, or into SetRecords/DeleteRecords.
ListReturn(g) ==
    IF op = "GetRecords"
    THEN /\ ret' = g.recs
         /\ err' = g.err
         /\ pc' = "done"
         /\ recs' = recs
    ELSE IF g.err.kind # "none"
    THEN /\ ret' = <<>>
         /\ err' = Wrap(g.err, "failed to get existing records")
         /\ pc' = "done"
         /\ recs' = recs
    ELSE /\ ret' = ret
         /\ err' = err
         /\ pc' = NextPc(1)
         /\ recs' = g.recs

ListExchange(req, o, c) ==
    /\ Exchange(0, req, o, c)
    /\ listing' = c.res.payload.Data
    /\ ListReturn(GetRecordsResult(c.res))

\* GetRecords: the list request and the mapping of its payload; for
\* SetRecords and DeleteRecords, the call of p.GetRecords that opens them.
ListStep(o) ==
    /\ pc = "list"
    /\ ListExchange(ListParams(zoneArg), o, ApiCall(zone, nextId, ListParams(zoneArg), o))
    /\ UNCHANGED <<work, op, zoneArg, records, idx, retIdx, zone0>>
    /\ UNCHANGED <<frames, trace, mu, gpc, got, made, input, output>>

\* The loop body putting each record done at the front of the list.
AfterRequest_Prepends(kind, rr, c, f) ==
    IF c.res.err.kind # "none"
    THEN /\ ret' = f.ret
         /\ retIdx' = f.retIdx
         /\ err' = f.err
         /\ pc' = "done"
         /\ idx' = idx
    ELSE /\ ret' = IF Recorded(kind, c.res.payload) THEN <<rr>> \o ret ELSE ret
         /\ retIdx' = IF Recorded(kind, c.res.payload) THEN <<idx>> \o retIdx ELSE retIdx
         /\ err' = err
         /\ idx' = idx + 1
         /\ pc' = NextPc(idx + 1)

\* The rest of a loop body after its request returned c: return f on error,
\* else record the success and go on.
AfterRequest(kind, rr, c, f) ==
    IF c.res.err.kind # "none"
    THEN /\ ret' = f.ret
         /\ retIdx' = f.retIdx
         /\ err' = f.err
         /\ pc' = "done"
         /\ idx' = idx
    ELSE /\ ret' = IF Recorded(kind, c.res.payload) THEN Append(ret, rr) ELSE ret
         /\ retIdx' = IF Recorded(kind, c.res.payload) THEN Append(retIdx, idx) ELSE retIdx
         /\ err' = err
         /\ idx' = idx + 1
         /\ pc' = NextPc(idx + 1)

RequestExchange(kind, rr, req, o, c) ==
    /\ Exchange(idx, req, o, c)
    /\ AfterRequest(kind, rr, c, FailureOf(kind, ret, retIdx, c.res.err))

\* A loop body that makes the request req for record rr.
Request(kind, rr, req, o) ==
    RequestExchange(kind, rr, req, o, ApiCall(zone, nextId, req, o))

\* A loop body that ends in continue without a request.
Skip ==
    /\ idx' = idx + 1
    /\ pc' = NextPc(idx + 1)
    /\ UNCHANGED <<zone, nextId, HTTPClient, reqs, ret, retIdx, err>>

\* AppendRecords: one iteration of its loop.
AppendStep(o) ==
    /\ op = "AppendRecords"
    /\ pc = "loop"
    /\ Request("append", records[idx], AddParams(zoneArg, records[idx]), o)
    /\ UNCHANGED <<work, op, zoneArg, records, recs, listing, zone0>>
    /\ UNCHANGED <<frames, trace, mu, gpc, got, made, input, output>>

\* The body of SetRecords' loop for record rr under the plan made for it; the
\* add goes through p.AppendRecords(ctx, zone, []libdns.Record{record}).
SetBody(rr, plan, o) ==
    CASE plan.act = "add"  -> Request("create", rr, AddParams(zoneArg, rr), o)
      [] plan.act = "skip" -> Skip
      [] plan.act = "edit" -> Request("edit", rr, EditParams(zoneArg, rr, plan.jxid), o)

\* SetRecords: one iteration of its outer loop (match, then add, skip or edit).
SetStep(o) ==
    /\ op = "SetRecords"
    /\ pc = "loop"
    /\ SetBody(records[idx], SetPlan(recs, records[idx]), o)
    /\ UNCHANGED <<work, op, zoneArg, records, recs, listing, zone0>>
    /\ UNCHANGED <<frames, trace, mu, gpc, got, made, input, output>>

\* The body of DeleteRecords' loop for record rr under the plan made for it.
DeleteBody(rr, plan, o) ==
    CASE plan.act = "skip"   -> Skip
      [] plan.act = "delete" -> Request("delete", rr, DeleteParams(zoneArg, plan.jxid), o)

\* DeleteRecords: one iteration of its outer loop (match, then skip or delete).
DeleteStep(o) ==
    /\ op = "DeleteRecords"
    /\ pc = "loop"
    /\ DeleteBody(records[idx], DeletePlan(recs, records[idx]), o)
    /\ UNCHANGED <<work, op, zoneArg, records, recs, listing, zone0>>
    /\ UNCHANGED <<frames, trace, mu, gpc, got, made, input, output>>

Next ==
    \/ \E o \in Ops, z \in ZoneArgs, rs \in Batches : Call(o, z, rs)
    \/ \E o \in Outcomes : ListStep(o)
    \/ \E o \in Outcomes : AppendStep(o)
    \/ \E o \in Outcomes : SetStep(o)
    \/ \E o \in Outcomes : DeleteStep(o)

Spec == Init /\ [][Next]_vars

\* ===================================================== concurrent SetRecords
\* Two goroutines call SetRecords on one Provider and one zone.  Each API call
\* is one step; the steps of the two calls interleave freely, since SetRecords
\* holds no lock between its list request and its add or edit requests.
Goroutines == {1, 2}

ConcZoneArg == <<"example.com", ".">>

\* What the environment decides about an API call of a concurrent call: the
\* round trip fails, or the vendor answers with status 200.
ConcOutcomes == {o \in Outcomes : o.k = "do" \/ (o.k = "resp" /\ o.status = StatusOK /\ o.wf)}

ConcBatches == UNION {[1..n -> InputRR] : n \in 1..MaxConcBatch}

Frame(batch) ==
    [batch |-> batch, pc |-> "list", idx |-> 1, recs |-> <<>>, ret |-> <<>>,
     err |-> NoErr]

SeqIdle ==
    /\ work = 0
    /\ op = "none"
    /\ zoneArg = <<>>
    /\ records = <<>>
    /\ pc = "idle"
    /\ idx = 1
    /\ recs = <<>>
    /\ listing = <<>>
    /\ ret = <<>>
    /\ retIdx = <<>>
    /\ err = NoErr
    /\ reqs = <<>>

seqVars == <<work, op, zoneArg, records, pc, idx, recs, listing, ret, retIdx,
             err, reqs>>

ConcInit ==
    /\ zone \in InitZones
    /\ nextId = Len(zone) + 1
    /\ HTTPClient = "nil"
    /\ zone0 = zone
    /\ SeqIdle
    /\ \E b1 \in ConcBatches, b2 \in ConcBatches : frames = <<Frame(b1), Frame(b2)>>
    /\ trace = <<>>
    /\ mu = [readers |-> {}, writer |-> 0]
    /\ gpc = <<>>
    /\ got = <<>>
    /\ made = 0
    /\ NoFunction

ConcNextPc(f, i) == IF i > Len(f.batch) THEN "done" ELSE "loop"

TraceEntry(g, i, req, c) ==
    [g |-> g, for |-> i, req |-> req, ok |-> c.res.err.kind = "none"]

\* The effect of goroutine g's API call c on the vendor, the client and the trace.
ConcExchange(g, i, req, c) ==
    /\ zone' = c.zone
    /\ nextId' = c.nextId
    /\ HTTPClient' = getHTTPClient(HTTPClient)
    /\ trace' = Append(trace, TraceEntry(g, i, req, c))

\* p.GetRecords returning r into goroutine g's SetRecords.
ConcListReturn(g, f, r) ==
    IF r.err.kind # "none"
    THEN frames' = [frames EXCEPT ![g] =
            [f EXCEPT !.pc = "done",
                      !.err = Wrap(r.err, "failed to get existing records")]]
    ELSE frames' = [frames EXCEPT ![g] =
            [f EXCEPT !.pc = ConcNextPc(f, 1), !.recs = r.recs]]

ConcListExchange(g, req, c) ==
    /\ ConcExchange(g, 0, req, c)
    /\ ConcListReturn(g, frames[g], GetRecordsResult(c.res))

\* Goroutine g's SetRecords lists the zone.
ConcList(g, o) ==
    /\ frames[g].pc = "list"
    /\ ConcListExchange(g, ListParams(ConcZoneArg),
                        ApiCall(zone, nextId, ListParams(ConcZoneArg), o))
    /\ UNCHANGED <<zone0, seqVars, mu, gpc, got, made, input, output>>

\* The rest of goroutine g's loop body after its request returned c.
ConcAfterRequest(g, f, kind, rr, c, fl) ==
    IF c.res.err.kind # "none"
    THEN frames' = [frames EXCEPT ![g] =
            [f EXCEPT !.pc = "done", !.ret = fl.ret, !.err = fl.err]]
    ELSE frames' = [frames EXCEPT ![g] =
            [f EXCEPT !.pc = ConcNextPc(f, f.idx + 1),
                      !.idx = f.idx + 1,
                      !.ret = IF Recorded(kind, c.res.payload)
                              THEN Append(f.ret, rr) ELSE f.ret]]

ConcRequestExchange(g, f, kind, rr, req, c) ==
    /\ ConcExchange(g, f.idx, req, c)
    /\ ConcAfterRequest(g, f, kind, rr, c, FailureOf(kind, f.ret, <<>>, c.res.err))

ConcRequest(g, f, kind, rr, req, o) ==
    ConcRequestExchange(g, f, kind, rr, req, ApiCall(zone, nextId, req, o))

ConcSkip(g, f) ==
    /\ frames' = [frames EXCEPT ![g] =
            [f EXCEPT !.pc = ConcNextPc(f, f.idx + 1), !.idx = f.idx + 1]]
    /\ UNCHANGED <<zone, nextId, HTTPClient, trace>>

ConcSetBody(g, f, rr, plan, o) ==
    CASE plan.act = "add"  -> ConcRequest(g, f, "create", rr, AddParams(ConcZoneArg, rr), o)
      [] plan.act = "skip" -> ConcSkip(g, f)
      [] plan.act = "edit" ->
            ConcRequest(g, f, "edit", rr, EditParams(ConcZoneArg, rr, plan.jxid), o)

\* Goroutine g's SetRecords runs one iteration of its outer loop, deciding
\* from the listing it read when it started.
ConcSetStep(g, o) ==
    /\ frames[g].pc = "loop"
    /\ ConcSetBody(g, frames[g], frames[g].batch[frames[g].idx],
                   SetPlan(frames[g].recs, frames[g].batch[frames[g].idx]), o)
    /\ UNCHANGED <<zone0, seqVars, mu, gpc, got, made, input, output>>

ConcNext ==
    \/ \E g \in Goroutines, o \in ConcOutcomes : ConcList(g, o)
    \/ \E g \in Goroutines, o \in ConcOutcomes : ConcSetStep(g, o)

ConcSpec == ConcInit /\ [][ConcNext]_vars

\* ================================================== concurrent getHTTPClient
\* Goroutines call getHTTPClient on one Provider.  Each lock operation and each
\* read or write of p.HTTPClient under a lock is one step.  mu is a
\* sync.RWMutex: RLock waits while a goroutine holds the write lock, Lock waits
\* while any goroutine holds the lock.
Callers == 1..MaxCallers

\* The client the n-th execution of &http.Client{...} constructs.
NewClient(n) == "default" \o ToString(n)

LockInit ==
    /\ HTTPClient \in {"nil", "custom"}
    /\ mu = [readers |-> {}, writer |-> 0]
    /\ gpc = [g \in Callers |-> "RLock"]
    /\ got = [g \in Callers |-> "none"]
    /\ made = 0
    /\ zone = <<>>
    /\ nextId = 1
    /\ zone0 = <<>>
    /\ SeqIdle
    /\ frames = <<>>
    /\ trace = <<>>
    /\ NoFunction

restVars == <<zone, nextId, zone0, seqVars, frames, trace, input, output>>

\* p.mu.RLock()
RLock(g) ==
    /\ gpc[g] = "RLock"
    /\ mu.writer = 0
    /\ mu' = [mu EXCEPT !.readers = @ \cup {g}]
    /\ gpc' = [gpc EXCEPT ![g] = "check"]
    /\ UNCHANGED <<HTTPClient, got, made, restVars>>

\* getHTTPClient without its fast path: the read lock is given up for the
\* write lock even when the client is set.
FastReturn_TakesWriteLock(g) ==
    /\ gpc[g] = "check"
    /\ HTTPClient # "nil"
    /\ mu' = [mu EXCEPT !.readers = @ \ {g}]
    /\ gpc' = [gpc EXCEPT ![g] = "Lock"]
    /\ UNCHANGED <<HTTPClient, got, made, restVars>>

\* if p.HTTPClient != nil { defer p.mu.RUnlock(); return p.HTTPClient }
FastReturn(g) ==
    /\ gpc[g] = "check"
    /\ HTTPClient # "nil"
    /\ got' = [got EXCEPT ![g] = HTTPClient]
    /\ gpc' = [gpc EXCEPT ![g] = "deferredRUnlock"]
    /\ UNCHANGED <<HTTPClient, mu, made, restVars>>

\* The deferred p.mu.RUnlock() of the fast path.
DeferredRUnlock(g) ==
    /\ gpc[g] = "deferredRUnlock"
    /\ mu' = [mu EXCEPT !.readers = @ \ {g}]
    /\ gpc' = [gpc EXCEPT ![g] = "done"]
    /\ UNCHANGED <<HTTPClient, got, made, restVars>>

\* p.HTTPClient was nil: p.mu.RUnlock()
RUnlock(g) ==
    /\ gpc[g] = "check"
    /\ HTTPClient = "nil"
    /\ mu' = [mu EXCEPT !.readers = @ \ {g}]
    /\ gpc' = [gpc EXCEPT ![g] = "Lock"]
    /\ UNCHANGED <<HTTPClient, got, made, restVars>>

\* p.mu.Lock()
Lock(g) ==
    /\ gpc[g] = "Lock"
    /\ mu.readers = {} /\ mu.writer = 0
    /\ mu' = [mu EXCEPT !.writer = g]
    /\ gpc' = [gpc EXCEPT ![g] = "recheck"]
    /\ UNCHANGED <<HTTPClient, got, made, restVars>>

\* The double check without its condition: the default client is constructed
\* whenever the write lock is held.
NeedsDefault_NoDoubleCheck(client) == TRUE

\* if p.HTTPClient == nil, under the write lock.
NeedsDefault(client) == client = "nil"

\* The client after the double check, and the number of clients constructed.
Rechecked(client, n) ==
    IF NeedsDefault(client)
    THEN [client |-> NewClient(n + 1), made |-> n + 1]
    ELSE [client |-> client, made |-> n]

\* if p.HTTPClient == nil { p.HTTPClient = &http.Client{...} }; return p.HTTPClient
SlowReturn(g) ==
    /\ gpc[g] = "recheck"
    /\ HTTPClient' = Rechecked(HTTPClient, made).client
    /\ made' = Rechecked(HTTPClient, made).made
    /\ got' = [got EXCEPT ![g] = Rechecked(HTTPClient, made).client]
    /\ gpc' = [gpc EXCEPT ![g] = "deferredUnlock"]
    /\ UNCHANGED <<mu, restVars>>

\* The deferred p.mu.Unlock() of the slow path.
DeferredUnlock(g) ==
    /\ gpc[g] = "deferredUnlock"
    /\ mu' = [mu EXCEPT !.writer = 0]
    /\ gpc' = [gpc EXCEPT ![g] = "done"]
    /\ UNCHANGED <<HTTPClient, got, made, restVars>>

LockNext ==
    \/ \E g \in Callers : RLock(g)
    \/ \E g \in Callers : FastReturn(g)
    \/ \E g \in Callers : DeferredRUnlock(g)
    \/ \E g \in Callers : RUnlock(g)
    \/ \E g \in Callers : Lock(g)
    \/ \E g \in Callers : SlowReturn(g)
    \/ \E g \in Callers : DeferredUnlock(g)

LockSpec == LockInit /\ [][LockNext]_vars

\* ============================================================ toLibdnsRecord
\* The mapping of one vendor record, for vendor records with every TTL string
\* of up to MaxTTLLen characters and with TTL strings at the edges of int and
\* of time.Duration.
TTLChars == {"0", "3", "7", "-", "+", "x"}

LongTTLs ==
    { <<"9", "2", "2", "3", "3", "7", "2", "0", "3", "7">>,
      <<"0", "0", "0", "0", "0", "0", "0", "0", "0", "6", "0">>,
      MinIntDigits }

TTLStrings == UNION {[1..n -> TTLChars] : n \in 0..MaxTTLLen} \cup LongTTLs

MapInputs ==
    {VendorRecord("7", nv[1], "A", nv[2], t) :
        nv \in {<<"www", "1.1.1.1">>, <<"@", "2.2.2.2">>}, t \in TTLStrings}

\* A Provider nobody calls.
ProviderIdle ==
    /\ zone = <<>>
    /\ nextId = 1
    /\ HTTPClient = "nil"
    /\ zone0 = <<>>
    /\ SeqIdle
    /\ NoGoroutines

providerVars ==
    <<zone, nextId, HTTPClient, zone0, seqVars, frames, trace, mu, gpc, got, made>>

MapInit ==
    /\ input \in MapInputs
    /\ output = [done |-> FALSE]
    /\ ProviderIdle

\* record.toLibdnsRecord(trimmedZone)
MapRecord ==
    /\ ~output.done
    /\ output' = [done |-> TRUE, val |-> toLibdnsRecord(input)]
    /\ UNCHANGED <<input, providerVars>>

MapNext == MapRecord

MapSpec == MapInit /\ [][MapNext]_vars

\* =================================================== libdnsZoneToDnslaDomain
\* The zone normalisation applied to a zone string and then to its own
\* result.  A zone string is a sequence of labels and dots.
ZonePieces == {"example", "com", "."}

ZoneStrings == UNION {[1..n -> ZonePieces] : n \in 0..MaxZoneLen}

ZoneInit ==
    /\ input \in ZoneStrings
    /\ output = [done |-> FALSE, again |-> FALSE]
    /\ ProviderIdle

\* libdnsZoneToDnslaDomain(zone)
TrimZone ==
    /\ ~output.done
    /\ output' = [done |-> TRUE, again |-> FALSE, once |-> libdnsZoneToDnslaDomain(input)]
    /\ UNCHANGED <<input, providerVars>>

\* libdnsZoneToDnslaDomain applied to its own result.
TrimZoneAgain ==
    /\ output.done /\ ~output.again
    /\ output' = [output EXCEPT !.again = TRUE] @@
                 [twice |-> libdnsZoneToDnslaDomain(output.once)]
    /\ UNCHANGED <<input, providerVars>>

ZoneNext == TrimZone \/ TrimZoneAgain

ZoneSpec == ZoneInit /\ [][ZoneNext]_vars

\* =================================================================== signing
\* The signing part of MakeApiRequestWithClient, on strings modelled as
\* sequences of pieces: a key, a separator ("?", "&", "=") or a character of a
\* value.
ApiBase == <<"https://api.gname.com">>

\* The keys of the requests, and the characters "b" and "w" that a record's
\* string can put in the place of a key, in ascending ASCII byte order.
AsciiKeys ==
    <<"appid", "b", "gntime", "gntoken", "jlz", "jxid", "lx", "ttl", "w", "ym", "zj">>

PieceRank(c) == CHOOSE i \in 1..Len(AsciiKeys) : AsciiKeys[i] = c

\* a < b in byte order, piece by piece.
KeyLess(a, b) ==
    \E i \in 1..(Len(a) + 1) :
        /\ \A j \in 1..(i - 1) : j <= Len(b) /\ a[j] = b[j]
        /\ \/ i > Len(a) /\ i <= Len(b)
           \/ i <= Len(a) /\ i <= Len(b) /\ PieceRank(a[i]) < PieceRank(b[i])

\* Index of the first piece c of s; 0 when there is none.
FirstIndex(s, c) ==
    IF \E i \in 1..Len(s) : s[i] = c
    THEN CHOOSE i \in 1..Len(s) : s[i] = c /\ \A j \in 1..(i - 1) : s[j] # c
    ELSE 0

\* fmt "%d" of a Unix time.
FormatUnix(n) == FormatSeconds(n)

\* newEndpoint := fmt.Sprintf("%s?%s&gntime=%d", endpoint, params, unix)
newEndpoint(endpoint, params, unix) ==
    <<endpoint, "?">> \o params \o <<"&", "gntime", "=">> \o FormatUnix(unix)

\* The query of a URL: what follows its first "?".
QueryOf(url) ==
    IF FirstIndex(url, "?") = 0 THEN <<>> ELSE SubSeq(url, FirstIndex(url, "?") + 1, Len(url))

\* strings.Split(s, c)
RECURSIVE Split(_, _)
Split(s, c) ==
    IF FirstIndex(s, c) = 0 THEN <<s>>
    ELSE <<SubSeq(s, 1, FirstIndex(s, c) - 1)>>
         \o Split(SubSeq(s, FirstIndex(s, c) + 1, Len(s)), c)

\* Percent-decoding and percent-encoding of one piece of a value.
UnescapePiece(c) ==
    CASE c = "%40" -> "@" [] c = "%26" -> "&" [] c = "%3D" -> "=" [] OTHER -> c

EscapePiece(c) ==
    CASE c = "@" -> "%40" [] c = "&" -> "%26" [] c = "=" -> "%3D" [] OTHER -> c

QueryUnescape(v) == [i \in 1..Len(v) |-> UnescapePiece(v[i])]
QueryEscape(v) == [i \in 1..Len(v) |-> EscapePiece(v[i])]

\* One key=value segment of a query: the key is what precedes the first "=".
ParsePair(seg) ==
    IF FirstIndex(seg, "=") = 0
    THEN [k |-> seg, v |-> <<>>]
    ELSE [k |-> SubSeq(seg, 1, FirstIndex(seg, "=") - 1),
          v |-> QueryUnescape(SubSeq(seg, FirstIndex(seg, "=") + 1, Len(seg)))]

\* The parameters of a query, in the order written; empty segments are skipped.
ParseQuery(q) ==
    [i \in 1..Len(SelectSeq(Split(q, "&"), LAMBDA seg : seg # <<>>)) |->
        ParsePair(SelectSeq(Split(q, "&"), LAMBDA seg : seg # <<>>)[i])]

RECURSIVE InsertPair(_, _)
InsertPair(p, s) ==
    IF s = <<>> THEN <<p>>
    ELSE IF KeyLess(p.k, s[1].k) THEN <<p>> \o s
    ELSE <<s[1]>> \o InsertPair(p, Tail(s))

\* Join leaving the parameters in the order supplied.
SortPairs_AsSupplied(ps) == ps

\* Order: gojoin.ASCII: the parameters in ascending byte order of key.
RECURSIVE SortPairs(_)
SortPairs(ps) ==
    IF ps = <<>> THEN <<>>
    ELSE InsertPair(ps[Len(ps)], SortPairs(SubSeq(ps, 1, Len(ps) - 1)))

\* URLCoding: gojoin.Encoding: every value percent-encoded.
EscapePairs(ps) == [i \in 1..Len(ps) |-> [k |-> ps[i].k, v |-> QueryEscape(ps[i].v)]]

\* Sep "&", KVSep "=": key=value segments joined by "&".
RECURSIVE JoinPairs(_)
JoinPairs(ps) ==
    IF ps = <<>> THEN <<>>
    ELSE IF Len(ps) = 1 THEN ps[1].k \o <<"=">> \o ps[1].v
    ELSE ps[1].k \o <<"=">> \o ps[1].v \o <<"&">> \o JoinPairs(Tail(ps))

\* gojoin.Join(url, Options{Sep: "&", KVSep: "=", Order: ASCII, URLCoding: Encoding})
Join(url) == JoinPairs(EscapePairs(SortPairs(ParseQuery(QueryOf(url)))))

\* The bytes of a string of pieces.
RECURSIVE Flatten(_)
Flatten(s) == IF s = <<>> THEN "" ELSE s[1] \o Flatten(Tail(s))

\* signParams := sortedParams + appKey
signParams(sortedParams, appKey) == sortedParams \o appKey

\* The token computed over the parameters alone.
gnToken_WithoutKey(sortedParams, appKey) == "MD5:" \o Flatten(sortedParams)

\* gnToken := strings.ToUpper(fmt.Sprintf("%x", md5.Sum([]byte(signParams)))):
\* the digest is a function of the bytes signed, taken to be free of collisions.
gnToken(sortedParams, appKey) == "MD5:" \o Flatten(signParams(sortedParams, appKey))

\* The body carrying the signed bytes, secret included.
bodyStr_WithKey(sortedParams, appKey) ==
    signParams(sortedParams, appKey) \o <<"&", "gntoken", "=", gnToken(sortedParams, appKey)>>

\* bodyStr := fmt.Sprintf("%s&gntoken=%s", sortedParams, gnToken)
bodyStr(sortedParams, appKey) ==
    sortedParams \o <<"&", "gntoken", "=", gnToken(sortedParams, appKey)>>

\* What one call signs and sends.
Signed(sortedParams, appKey) ==
    [done |-> TRUE,
     sortedParams |-> sortedParams,
     gnToken |-> gnToken(sortedParams, appKey),
     bodyStr |-> bodyStr(sortedParams, appKey)]

Sign(s) == Signed(Join(ApiBase \o newEndpoint(s.endpoint, s.params, s.unix)), s.appKey)

\* The calls signed: list and delete requests with their parameters supplied
\* in every order, at the times 1..MaxStamp, under two secrets of which one
\* ends as the other begins with a character that a zone can end with.
Param(k, v) == [k |-> <<k>>, v |-> v]

Orderings(S) ==
    {f \in [1..Cardinality(S) -> S] : \A i, j \in 1..Cardinality(S) : f[i] = f[j] => i = j}

SignZones == {<<"e">>, <<"e", "x">>}
SignIDs == {<<"7">>, <<"8">>}
SignKeys == {<<"k">>, <<"x", "k">>}

SignRequests ==
    {[endpoint |-> "/api/resolution/list", ps |-> ps] :
        ps \in UNION {Orderings({Param("appid", <<"A">>), Param("ym", y)}) : y \in SignZones}}
    \cup
    {[endpoint |-> "/api/resolution/delete", ps |-> ps] :
        ps \in UNION {Orderings({Param("appid", <<"A">>), Param("ym", y), Param("jxid", i)}) :
                        y \in SignZones, i \in SignIDs}}

\* The params string a caller formats from its parameters.
SignCalls ==
    {[endpoint |-> r.endpoint, ps |-> r.ps, params |-> JoinPairs(r.ps),
      unix |-> t, appKey |-> k] :
        r \in SignRequests, t \in 1..MaxStamp, k \in SignKeys}

SignInit ==
    /\ input \in SignCalls \X SignCalls
    /\ output = <<[done |-> FALSE], [done |-> FALSE]>>
    /\ ProviderIdle

\* The i-th call signs its request.
SignCall(i) ==
    /\ ~output[i].done
    /\ output' = [output EXCEPT ![i] = Sign(input[i])]
    /\ UNCHANGED <<input, providerVars>>

SignNext == \E i \in {1, 2} : SignCall(i)

SignSpec == SignInit /\ [][SignNext]_vars

\* ======================================================== request parameters
\* The params strings AppendRecords and DeleteRecords format, and what the
\* signer reads back from them.  The strings of a record are sequences of
\* pieces; "&" and "=" are pieces like any other.

\* fmt.Sprintf("appid=%s&ym=%s&lx=%s&zj=%s&jlz=%s&ttl=%.0f", ...): %s writes
\* its argument as it is.
AddString(appid, ym, rr) ==
    <<"appid", "=">> \o appid \o <<"&", "ym", "=">> \o ym
    \o <<"&", "lx", "=">> \o rr.Type \o <<"&", "zj", "=">> \o rr.Name
    \o <<"&", "jlz", "=">> \o rr.Data \o <<"&", "ttl", "=">> \o FormatSeconds(rr.TTL)

\* fmt.Sprintf("appid=%s&ym=%s&jxid=%s", ...)
DeleteString(appid, ym, recordId) ==
    <<"appid", "=">> \o appid \o <<"&", "ym", "=">> \o ym
    \o <<"&", "jxid", "=">> \o recordId

\* The parameters Join signs: those it reads from the URL, in its order.
SignedPairs(url) == SortPairs(ParseQuery(QueryOf(url)))

\* The strings of a record: up to MaxNameLen pieces, separators included.
ParamStrings == UNION {[1..n -> {"w", "b", "&", "="}] : n \in 0..MaxNameLen}

ParamCalls ==
    {[kind |-> "add", ym |-> <<"e">>,
      rr |-> [Name |-> n, Type |-> <<"A">>, Data |-> d, TTL |-> 300]] :
        n \in ParamStrings, d \in {s \in ParamStrings : Len(s) <= 1}}
    \cup
    {[kind |-> "delete", ym |-> y, recordId |-> i] : y \in SignZones, i \in SignIDs}

ParamInit ==
    /\ input \in ParamCalls
    /\ output = [done |-> FALSE]
    /\ ProviderIdle

\* AppendRecords formats the parameters of a record and the call signs them.
SignAdd ==
    /\ ~output.done /\ input.kind = "add"
    /\ output' = [done |-> TRUE,
                  pairs |-> SignedPairs(ApiBase \o
                      newEndpoint("/api/resolution/add",
                                  AddString(<<"A">>, input.ym, input.rr), 1))]
    /\ UNCHANGED <<input, providerVars>>

\* DeleteRecords formats the parameters of a vendor ID and the call signs them.
SignDelete ==
    /\ ~output.done /\ input.kind = "delete"
    /\ output' = [done |-> TRUE,
                  pairs |-> SignedPairs(ApiBase \o
                      newEndpoint("/api/resolution/delete",
                                  DeleteString(<<"A">>, input.ym, input.recordId), 1))]
    /\ UNCHANGED <<input, providerVars>>

ParamNext == SignAdd \/ SignDelete

ParamSpec == ParamInit /\ [][ParamNext]_vars

\* ============================================================= response body
\* MakeApiRequestWithClient from client.Do to its return, statement by
\* statement, with the response body as a stream: its length, how much of it
\* was read, whether a read reached its end, and how often it was closed.
\* input is what the environment decides: the outcome of the round trip, the
\* length of the body and the offset at which reading it fails (-1: never).
BodyInit ==
    /\ input \in {c \in [o : {o \in Outcomes : o.k \in {"do", "resp"}},
                         len : 0..MaxBodyLen, failAt : -1..MaxBodyLen] :
                    c.failAt <= c.len}
    /\ output = [pc |-> "Do", received |-> FALSE, deferred |-> 0, pos |-> 0,
                 eof |-> FALSE, readErr |-> FALSE, closed |-> 0, err |-> NoErr]
    /\ ProviderIdle

\* io.ReadAll(resp.Body) on the stream s: to the end, or to the failing offset.
ReadAll(s, len, failAt) ==
    IF failAt >= s.pos
    THEN [s EXCEPT !.pos = failAt, !.readErr = TRUE]
    ELSE [s EXCEPT !.pos = len, !.eof = TRUE]

\* resp, err := client.Do(req); if err != nil { return ... }; defer Body.Close()
Do ==
    /\ output.pc = "Do"
    /\ output' =
          IF input.o.k = "do"
          THEN [output EXCEPT !.pc = "return",
                  !.err = MakeApiRequestWithClient(input.o, [status |-> 0], ZeroPayload).err]
          ELSE [output EXCEPT !.pc = "status", !.received = TRUE, !.deferred = 1]
    /\ UNCHANGED <<input, providerVars>>

\* if resp.StatusCode != http.StatusOK { bodyBytes, _ := io.ReadAll(resp.Body); return ... }
ReadOnStatus ==
    /\ output.pc = "status" /\ input.o.status # StatusOK
    /\ output' = [ReadAll(output, input.len, input.failAt) EXCEPT
                    !.pc = "return",
                    !.err = MakeApiRequestWithClient(input.o,
                               VendorResponse(<<>>, 1, ListParams(<<>>), input.o),
                               ZeroPayload).err]
    /\ UNCHANGED <<input, providerVars>>

\* result, err := io.ReadAll(resp.Body); if err != nil { return ... }
ReadOnOK ==
    /\ output.pc = "status" /\ input.o.status = StatusOK
    /\ output' =
          IF ReadAll(output, input.len, input.failAt).readErr
          THEN [ReadAll(output, input.len, input.failAt) EXCEPT
                  !.pc = "return",
                  !.err = [kind |-> "read", wrap |-> <<"failed to read response body">>]]
          ELSE [ReadAll(output, input.len, input.failAt) EXCEPT !.pc = "parse"]
    /\ UNCHANGED <<input, providerVars>>

\* The two json.Unmarshal calls and the check of the envelope code.
Parse ==
    /\ output.pc = "parse"
    /\ output' = [output EXCEPT
                    !.pc = "return",
                    !.err = MakeApiRequestWithClient(input.o,
                               VendorResponse(<<>>, 1, ListParams(<<>>), input.o),
                               ZeroPayload).err]
    /\ UNCHANGED <<input, providerVars>>

\* A return running the deferred calls without the Body.Close() among them.
RunDeferred_Nothing(s) == s

\* The deferred func(Body io.ReadCloser) { Body.Close() }(resp.Body), run once
\* for every defer statement executed.
RunDeferred(s) == [s EXCEPT !.closed = @ + s.deferred, !.deferred = 0]

\* The return statement: the deferred calls run, then the caller goes on.
Return ==
    /\ output.pc = "return"
    /\ output' = [RunDeferred(output) EXCEPT !.pc = "returned"]
    /\ UNCHANGED <<input, providerVars>>

BodyNext == Do \/ ReadOnStatus \/ ReadOnOK \/ Parse \/ Return

BodySpec == BodyInit /\ [][BodyNext]_vars

\* ========================================================== signer failures
\* One API call through either client of the repository: src/client.go
\* (MakeApiRequestWithClient) or the earlier client (MakeApiRequest, which
\* does everything itself), with what the environment decides about it.

\* MakeApiRequest of the earlier client.  The error of time.LoadLocation is
\* overwritten unread, and time.Now().In(nil) panics; the other errors are
\* returned as they are.
MakeApiRequest(o, resp, responseType) ==
    IF o.k = "tz"
    THEN [panicked |-> TRUE, payload |-> responseType, err |-> NoErr]
    ELSE IF o.k = "join"
    THEN [panicked |-> FALSE, payload |-> responseType, err |-> [kind |-> "encoding", wrap |-> <<>>]]
    ELSE IF o.k = "do"
    THEN [panicked |-> FALSE, payload |-> responseType, err |-> [kind |-> "network", wrap |-> <<>>]]
    ELSE IF resp.status # StatusOK
    THEN [panicked |-> FALSE, payload |-> responseType,
          err |-> [kind |-> "transport", body |-> resp.body,
                   wrap |-> <<"Invalid http response status">>]]
    ELSE IF ~resp.body.wf
    THEN [panicked |-> FALSE, payload |-> responseType, err |-> [kind |-> "json", wrap |-> <<>>]]
    ELSE IF resp.body.code # EnvelopeOK
    THEN [panicked |-> FALSE, payload |-> responseType,
          err |-> [kind |-> "api", msg |-> resp.body.msg, wrap |-> <<>>]]
    ELSE IF ~resp.body.fits
    THEN [panicked |-> FALSE, payload |-> responseType, err |-> [kind |-> "json", wrap |-> <<>>]]
    ELSE [panicked |-> FALSE,
          payload |-> [Code |-> resp.body.code, Msg |-> resp.body.msg, Data |-> resp.body.data],
          err |-> NoErr]

ClientInit ==
    /\ input \in [earlier : BOOLEAN, o : Outcomes,
                  call : {c \in SignCalls : c.unix = 1 /\ c.endpoint = "/api/resolution/list"}]
    /\ output = [done |-> FALSE]
    /\ ProviderIdle

\* The call runs to its end: what it returns, whether it panicked, and the
\* request body it handed to client.Do, if it got that far.
ClientCall(resp) ==
    /\ ~output.done
    /\ output' =
          IF input.earlier
          THEN [done |-> TRUE,
                panicked |-> MakeApiRequest(input.o, resp, ZeroPayload).panicked,
                err |-> MakeApiRequest(input.o, resp, ZeroPayload).err,
                sent |-> IF input.o.k \in {"do", "resp"}
                         THEN Sign(input.call).bodyStr ELSE <<>>]
          ELSE [done |-> TRUE,
                panicked |-> FALSE,
                err |-> MakeApiRequestWithClient(input.o, resp, ZeroPayload).err,
                sent |-> IF input.o.k \in {"do", "resp"}
                         THEN Sign(input.call).bodyStr ELSE <<>>]
    /\ UNCHANGED <<input, providerVars>>

ClientNext == ClientCall(VendorResponse(<<>>, 1, ListParams(<<>>), input.o))

ClientSpec == ClientInit /\ [][ClientNext]_vars

\* ================================================================== claims
\* Vocabulary of the claims.

\* The API calls this call made for input record i.
EntriesFor(i) == {k \in 1..Len(reqs) : reqs[k].for = i}

\* Index of the first record of a vendor listing with the name and type of rr.
VendorMatch(l, rr) ==
    IF \E m \in 1..Len(l) : l[m].Zjt = rr.Name /\ l[m].Lx = rr.Type
    THEN CHOOSE m \in 1..Len(l) :
            /\ l[m].Zjt = rr.Name /\ l[m].Lx = rr.Type
            /\ \A j \in 1..(m - 1) : ~(l[j].Zjt = rr.Name /\ l[j].Lx = rr.Type)
    ELSE 0

\* The list request of this call succeeded.
ListOK == Len(reqs) >= 1 /\ reqs[1].req.ep = "list" /\ reqs[1].res.err.kind = "none"

\* The call returned, with or without an error.
Returned == pc = "done"
Failed == pc = "done" /\ err.kind # "none"

\* The vendor answered the k-th API call with an envelope.
HasEnvelope(k) == reqs[k].out.k = "resp" /\ reqs[k].resp.body.wf

InRet(i) == \E j \in 1..Len(retIdx) : retIdx[j] = i /\ ret[j] = records[i]

\* C1: in SetRecords, a desired record whose (name, type) is that of a listed
\* record with a non-empty vendor ID gets exactly one edit request with the ID
\* of the first listed match, the desired value and TTL, no create request,
\* and is returned with the desired values.
C1_SetEditsListedRecord ==
    op = "SetRecords" =>
        \A i \in 1..Len(records) :
            LET m == VendorMatch(listing, records[i])
            IN  (i < idx /\ m # 0 /\ listing[m].ID # "") =>
                    /\ Cardinality(EntriesFor(i)) = 1
                    /\ \A k \in EntriesFor(i) :
                          /\ reqs[k].req.ep = "edit"
                          /\ reqs[k].req.jxid = listing[m].ID
                          /\ reqs[k].req.jlz = records[i].Data
                          /\ reqs[k].req.ttl = FormatSeconds(records[i].TTL)
                    /\ InRet(i)

\* C2: in DeleteRecords, a target record whose (name, type) is that of a
\* listed record gets exactly one delete request with the ID of the first
\* listed match; when its envelope code is 1 the target is returned and no
\* record with that ID is left in the zone.
C2_DeleteRemovesListedRecord ==
    op = "DeleteRecords" =>
        \A i \in 1..Len(records) :
            LET m == VendorMatch(listing, records[i])
            IN  (i < idx /\ m # 0) =>
                    /\ Cardinality(EntriesFor(i)) = 1
                    /\ \A k \in EntriesFor(i) :
                          /\ reqs[k].req.ep = "delete"
                          /\ reqs[k].req.jxid = listing[m].ID
                          /\ (HasEnvelope(k) /\ reqs[k].resp.body.code = 1) =>
                                /\ InRet(i)
                                /\ \A z \in 1..Len(zone) : zone[z].ID # listing[m].ID

\* C3: GetRecords returns one record per vendor record, in the vendor's order,
\* each carrying the vendor ID of the record it was built from, as the type
\* assertion of SetRecords and DeleteRecords recovers it.
C3_ListedRecordsCarryID ==
    (op = "GetRecords" /\ Returned /\ err.kind = "none") =>
        /\ Len(ret) = Len(listing)
        /\ \A i \in 1..Len(ret) :
              /\ RROf(ret[i]).Name = listing[i].Zjt
              /\ RROf(ret[i]).Type = listing[i].Lx
              /\ RROf(ret[i]).Data = listing[i].Jxz
              /\ AssertedID(ret[i]) = listing[i].ID

\* C4: in SetRecords, a desired record whose (name, type) is that of no listed
\* record gets exactly one add request with its name, type, value and TTL and
\* no edit request; when that request succeeds the record is returned with the
\* desired name, type, value and TTL.
C4_SetCreatesUnlistedRecord ==
    (op = "SetRecords" /\ ListOK) =>
        \A i \in 1..Len(records) :
            (VendorMatch(listing, records[i]) = 0 /\ (i < idx \/ (i = idx /\ Returned))) =>
                /\ Cardinality(EntriesFor(i)) = 1
                /\ \A k \in EntriesFor(i) :
                      /\ reqs[k].req.ep = "add"
                      /\ reqs[k].req.zj = records[i].Name
                      /\ reqs[k].req.lx = records[i].Type
                      /\ reqs[k].req.jlz = records[i].Data
                      /\ Atoi(reqs[k].req.ttl) = [ok |-> TRUE, val |-> records[i].TTL]
                      /\ reqs[k].res.err.kind = "none" => InRet(i)

W_C4_SetCreated ==
    /\ op = "SetRecords" /\ Returned /\ err.kind = "none"
    /\ Len(listing) > 0
    /\ \E i \in 1..Len(records) :
          /\ VendorMatch(listing, records[i]) = 0
          /\ InRet(i)
          /\ \E z \in 1..Len(zone) : zone[z].Zjt = records[i].Name /\ zone[z].Jxz = records[i].Data

\* C5: in DeleteRecords, a target record whose (name, type) is that of no
\* listed record causes no API call after the listing, is not returned, and a
\* call all of whose targets are such leaves the zone as it was.
C5_DeleteSkipsUnlistedRecord ==
    (op = "DeleteRecords" /\ ListOK) =>
        /\ \A i \in 1..Len(records) :
              (VendorMatch(listing, records[i]) = 0 /\ i < idx) =>
                  /\ EntriesFor(i) = {}
                  /\ \A j \in 1..Len(retIdx) : retIdx[j] # i
        /\ (\A i \in 1..Len(records) : VendorMatch(listing, records[i]) = 0) =>
              /\ zone = zone0
              /\ Len(reqs) = 1

W_C5_DeleteSkipped ==
    /\ op = "DeleteRecords" /\ Returned /\ err.kind = "none"
    /\ Len(listing) > 0
    /\ Len(records) = 2
    /\ \A i \in 1..Len(records) : VendorMatch(listing, records[i]) = 0

\* C6: an API call answered with an envelope whose code is not 1 fails, also
\* under HTTP status 200, with an error carrying the vendor's message and code
\* and with no payload; the enclosing operation fails with that error and the
\* record the call was made for is not in the returned list.
C6_EnvelopeFailureIsError ==
    \A k \in 1..Len(reqs) :
        (HasEnvelope(k) /\ reqs[k].resp.body.code # 1) =>
            LET e == reqs[k].res.err
                b == reqs[k].resp.body
            IN  /\ e.kind # "none"
                /\ reqs[k].res.payload = ZeroPayload
                /\ reqs[k].resp.status = 200 =>
                      e.kind = "api" /\ e.msg = b.msg /\ e.code = b.code
                /\ reqs[k].resp.status # 200 =>
                      e.kind = "transport" /\ e.body.msg = b.msg /\ e.body.code = b.code
                /\ k = Len(reqs)
                /\ Failed
                /\ err.kind = e.kind
                /\ \A j \in 1..Len(retIdx) : retIdx[j] # reqs[k].for
                /\ reqs[k].for = 0 => ret = <<>>

W_C6_ApiErrorUnderStatus200 ==
    /\ op = "AppendRecords" /\ Failed
    /\ Len(reqs) = 2
    /\ HasEnvelope(2) /\ reqs[2].resp.status = 200 /\ reqs[2].resp.body.code = 0
    /\ err.kind = "api" /\ err.msg = "invalid appid"
    /\ Len(ret) = 1

C8_AppendStopsAtFirstFailure ==
    op = "AppendRecords" =>
        /\ \A k \in 1..Len(reqs) :
              /\ reqs[k].for = k
              /\ reqs[k].req.ep = "add"
              /\ reqs[k].req.zj = records[k].Name
              /\ reqs[k].req.lx = records[k].Type
              /\ reqs[k].req.jlz = records[k].Data
              /\ k < Len(reqs) => reqs[k].res.err.kind = "none"
        /\ Failed =>
              /\ Len(reqs) = idx
              /\ reqs[idx].res.err.kind # "none"
              /\ ret = SubSeq(records, 1, idx - 1)
        /\ (Returned /\ err.kind = "none") =>
              /\ ret = records
              /\ Len(reqs) = Len(records)

W_C8_AppendFailedAtSecond ==
    /\ op = "AppendRecords" /\ Failed
    /\ idx = 2
    /\ ret = <<records[1]>>
    /\ Len(zone) = Len(zone0) + 1

\* C9: when an add, edit or delete request of SetRecords or DeleteRecords
\* fails, the call returns at that request with an error and the records that
\* succeeded before it; there is no request for a later record, no second
\* request for any record, and what was created before stays in the zone.
C9_BatchFailFast ==
    (op \in {"SetRecords", "DeleteRecords"} /\ Failed /\ ListOK) =>
        LET n == Len(reqs)
        IN  /\ n >= 2
            /\ reqs[n].for = idx
            /\ reqs[n].res.err.kind # "none"
            /\ err.kind = reqs[n].res.err.kind
            /\ \A k \in 1..(n - 1) : reqs[k].res.err.kind = "none"
            /\ \A i \in 1..Len(records) :
                  /\ i > idx => EntriesFor(i) = {}
                  /\ Cardinality(EntriesFor(i)) <= 1
                  /\ i < idx => (EntriesFor(i) # {} <=> InRet(i))
            /\ Len(ret) = Len(retIdx)
            /\ \A j \in 1..Len(retIdx) :
                  /\ retIdx[j] < idx
                  /\ ret[j] = records[retIdx[j]]
                  /\ j > 1 => retIdx[j - 1] < retIdx[j]
            /\ \A k \in 2..(n - 1) :
                  reqs[k].req.ep = "add" =>
                      \E z \in 1..Len(zone) :
                          /\ zone[z].ID = ToString(reqs[k].res.payload.Data[1])
                          /\ zone[z].Zjt = reqs[k].req.zj
                          /\ zone[z].Jxz = reqs[k].req.jlz

W_C9_SetFailedAtSecond ==
    /\ op = "SetRecords" /\ Failed /\ ListOK
    /\ idx = 2
    /\ Len(ret) = 1
    /\ Len(zone) = Len(zone0) + 1

\* C10: a desired or target record that matches a listed record whose vendor
\* ID cannot be recovered causes no request, is not returned, and never ends
\* the call: SetRecords and DeleteRecords go on to the next record without an
\* error.
C10_UnresolvedMatchIsSkipped ==
    (op \in {"SetRecords", "DeleteRecords"} /\ ListOK) =>
        \A i \in 1..Len(records) :
            LET m == VendorMatch(listing, records[i])
            IN  (m # 0 /\ AssertedID(recs[m]) = "") =>
                    /\ EntriesFor(i) = {}
                    /\ \A j \in 1..Len(retIdx) : retIdx[j] # i
                    /\ ~(Returned /\ idx = i)
                    /\ (Returned /\ err.kind = "none") => idx = Len(records) + 1

W_C10_SkippedThenCreated ==
    /\ op = "SetRecords" /\ Returned /\ err.kind = "none"
    /\ Len(records) = 2
    /\ VendorMatch(listing, records[1]) # 0
    /\ EntriesFor(1) = {}
    /\ InRet(2)
    /\ retIdx = <<2>>

\* Number of records of zone z with the name and type of rr.
KeyCount(z, rr) ==
    Cardinality({m \in 1..Len(z) : z[m].Zjt = rr.Name /\ z[m].Lx = rr.Type})

\* Goroutine g's list request succeeded before any create request was made.
ListedBeforeCreates(g) ==
    \E k \in 1..Len(trace) :
        /\ trace[k].g = g /\ trace[k].req.ep = "list" /\ trace[k].ok
        /\ \A j \in 1..(k - 1) : trace[j].req.ep # "add"

\* Goroutine g made a successful create request for the i-th record of its batch.
Created(g, i) ==
    \E k \in 1..Len(trace) :
        /\ trace[k].g = g /\ trace[k].for = i /\ trace[k].ok
        /\ trace[k].req = AddParams(ConcZoneArg, frames[g].batch[i])

\* Both calls listed before either created, and got past records i and j,
\* which have one (name, type) that the zone did not have.
RacedOn(i, j) ==
    /\ frames[1].batch[i].Name = frames[2].batch[j].Name
    /\ frames[1].batch[i].Type = frames[2].batch[j].Type
    /\ KeyCount(zone0, frames[1].batch[i]) = 0
    /\ ListedBeforeCreates(1) /\ ListedBeforeCreates(2)
    /\ frames[1].idx > i /\ frames[2].idx > j

\* C11: when two concurrent SetRecords calls on one zone both list before
\* either creates, each of them issues a create request for a desired
\* (name, type) that the zone did not have, and the zone ends up with two
\* records of that (name, type).
C11_ConcurrentSetsBothCreate ==
    \A i \in 1..Len(frames[1].batch), j \in 1..Len(frames[2].batch) :
        RacedOn(i, j) =>
            /\ Created(1, i) /\ Created(2, j)
            /\ KeyCount(zone, frames[1].batch[i]) >= 2

W_C11_TwoRecordsAfterRace ==
    /\ RacedOn(1, 1)
    /\ frames[1].pc = "done" /\ frames[1].err.kind = "none"
    /\ frames[2].pc = "done" /\ frames[2].err.kind = "none"
    /\ zone0 = <<>>
    /\ KeyCount(zone, frames[1].batch[1]) = 2

\* C12: for any interleaving of concurrent getHTTPClient calls on one
\* Provider, the default client is constructed at most once, every call
\* returns the same client, and a client that is set (the caller-supplied one
\* included) is never replaced.
C12_LazyInitSafe ==
    /\ [](/\ made <= 1
          /\ \A g \in Callers, h \in Callers :
                gpc[g] = "done" /\ gpc[h] = "done" => got[g] = got[h]
          /\ \A g \in Callers : gpc[g] = "done" => got[g] = HTTPClient /\ got[g] # "nil")
    /\ [][HTTPClient # "nil" => HTTPClient' = HTTPClient]_vars

\* Two calls both found the field nil under the read lock and both went
\* through the write lock; one client was constructed and both returned it.
W_C12_BothTookSlowPath ==
    /\ \A g \in {1, 2} : gpc[g] = "done" /\ got[g] = NewClient(1)
    /\ made = 1
    /\ HTTPClient = NewClient(1)

\* The string s is a decimal numeral of a positive int: an optional sign that
\* is not a minus, digits, a value above zero that fits an int.
ParsesPositive(s) ==
    /\ Len(s) > 0
    /\ s[1] # "-"
    /\ Len(IF s[1] = "+" THEN Tail(s) ELSE s) > 0
    /\ \A i \in 1..Len(s) : IsDigit(s[i]) \/ (i = 1 /\ s[1] = "+")
    /\ Magnitude(s) # <<"0">>
    /\ ~DigitsLess(MaxIntDigits, Magnitude(s))

\* C13: toLibdnsRecord passes the vendor name, type and value through
\* verbatim; the TTL is the vendor TTL in seconds when the vendor TTL string
\* parses to a positive integer, and 600 seconds in every other case.
C13_MappingKeepsFieldsAndTTL ==
    output.done =>
        /\ output.val.Name = input.Zjt
        /\ output.val.Type = input.Lx
        /\ output.val.Data = input.Jxz
        /\ IF ParsesPositive(input.TTL)
           THEN /\ output.val.TTL > 0
                /\ FormatSeconds(output.val.TTL) = Magnitude(input.TTL)
           ELSE output.val.TTL = DefaultTTL

EndsInDot(z) == Len(z) > 0 /\ z[Len(z)] = "."
EndsInTwoDots(z) == Len(z) > 1 /\ z[Len(z)] = "." /\ z[Len(z) - 1] = "."

\* C14 as stated: for every zone string, the normalised zone has no trailing
\* dot, and normalising it again changes nothing.
C14_ZoneNormalisationIdempotent ==
    /\ output.done => ~EndsInDot(output.once)
    /\ output.again => output.twice = output.once

\* C14, amended: for every zone string that does not end in two or more dots,
\* the normalised zone has no trailing dot, and normalising it again changes
\* nothing.
C14_SingleDotNormalisationIdempotent ==
    ~EndsInTwoDots(input) =>
        /\ output.done => ~EndsInDot(output.once)
        /\ output.again => output.twice = output.once

W_C14_TrailingDotRemovedOnce ==
    /\ output.again
    /\ EndsInDot(input) /\ ~EndsInTwoDots(input)
    /\ output.once # input
    /\ output.twice = output.once

\* Vocabulary of the signing claims.
BothSigned == output[1].done /\ output[2].done

\* The parameters a call was given, as a set.
ParamSet(i) == {input[i].ps[k] : k \in 1..Len(input[i].ps)}

\* C15: two signings of the same endpoint, parameter set, timestamp and secret
\* produce the identical token and the identical request body, whatever the
\* order in which the parameters were supplied.
C15_SigningDeterministic ==
    (/\ BothSigned
     /\ input[1].endpoint = input[2].endpoint
     /\ ParamSet(1) = ParamSet(2)
     /\ input[1].unix = input[2].unix
     /\ input[1].appKey = input[2].appKey)
    => /\ output[1].gnToken = output[2].gnToken
       /\ output[1].bodyStr = output[2].bodyStr

W_C15_SameTokenOtherOrder ==
    /\ BothSigned
    /\ ParamSet(1) = ParamSet(2)
    /\ input[1].params # input[2].params
    /\ input[1].unix = input[2].unix
    /\ input[1].appKey = input[2].appKey
    /\ output[1].gnToken = output[2].gnToken
    /\ output[1].bodyStr = output[2].bodyStr

\* Some parameter value or the timestamp differs between the two signings.
RequestDiffers == ParamSet(1) # ParamSet(2) \/ input[1].unix # input[2].unix

\* C16 as stated: the tokens of two signings differ if and only if some
\* parameter value, the secret or the timestamp differs between them.
C16_TokenDiffersIffInputDiffers ==
    BothSigned =>
        (output[1].gnToken # output[2].gnToken
            <=> (RequestDiffers \/ input[1].appKey # input[2].appKey))

\* C16, amended: under one secret the tokens differ if and only if some
\* parameter value or the timestamp differs; for one set of parameters and one
\* timestamp they differ if and only if the secrets differ; in every case they
\* differ if and only if the signed string followed by the secret differs.
C16_TokenDiffersIffSignedBytesDiffer ==
    BothSigned =>
        /\ input[1].appKey = input[2].appKey
            => (output[1].gnToken # output[2].gnToken <=> RequestDiffers)
        /\ ~RequestDiffers
            => (output[1].gnToken # output[2].gnToken
                    <=> input[1].appKey # input[2].appKey)
        /\ output[1].gnToken # output[2].gnToken
            <=> Flatten(output[1].sortedParams \o input[1].appKey)
                    # Flatten(output[2].sortedParams \o input[2].appKey)

W_C16_TimestampChangesToken ==
    /\ BothSigned
    /\ ParamSet(1) = ParamSet(2)
    /\ input[1].appKey = input[2].appKey
    /\ input[1].unix # input[2].unix
    /\ output[1].gnToken # output[2].gnToken

\* The parameters of call i with gntime, arranged in ascending order of key
\* and written as key=value segments joined by "&".
Ascending(f) == \A a, b \in 1..Len(f) : a < b => KeyLess(f[a].k, f[b].k)

CanonicalForms(i) ==
    {JoinPairs(f) :
        f \in {g \in Orderings(ParamSet(i) \cup {Param("gntime", FormatUnix(input[i].unix))}) :
                Ascending(g)}}

\* The string sub occurs in s.
Occurs(sub, s) ==
    \E a \in 1..(Len(s) - Len(sub) + 1) : SubSeq(s, a, a + Len(sub) - 1) = sub

\* C17: the signed string is every endpoint parameter plus gntime as key=value
\* pairs in ascending ASCII byte order of key joined by "&"; the token is
\* computed over that string followed by the secret; the body is that string
\* followed by "&gntoken=" and the token; gntoken is not part of the signed
\* string and the secret does not appear in the body.
C17_CanonicalRequestForm ==
    \A i \in {1, 2} :
        output[i].done =>
            /\ output[i].sortedParams \in CanonicalForms(i)
            /\ output[i].gnToken
                = "MD5:" \o Flatten(output[i].sortedParams \o input[i].appKey)
            /\ output[i].bodyStr
                = output[i].sortedParams \o <<"&", "gntoken", "=", output[i].gnToken>>
            /\ ~Occurs(<<"gntoken">>, output[i].sortedParams)
            /\ ~Occurs(input[i].appKey, output[i].bodyStr)

W_C17_UnsortedParamsSigned ==
    /\ output[1].done
    /\ input[1].endpoint = "/api/resolution/delete"
    /\ input[1].params[1] = "ym"
    /\ output[1].sortedParams[1] = "appid"
    /\ output[1].sortedParams[5] = "gntime"
    /\ output[1].bodyStr[Len(output[1].bodyStr) - 2] = "gntoken"

\* s is a subsequence of t: the elements of s occur in t in the order of s.
RECURSIVE IsSubseq(_, _)
IsSubseq(s, t) ==
    IF s = <<>> THEN TRUE
    ELSE IF t = <<>> THEN FALSE
    ELSE IF s[1] = t[1] THEN IsSubseq(Tail(s), Tail(t))
    ELSE IsSubseq(s, Tail(t))

\* C18: within one AppendRecords, SetRecords or DeleteRecords call the add,
\* edit and delete requests are issued in input order, at most one per
\* record, each only after the response to the one before it was received
\* without error, and the returned list is a subsequence of the input records
\* in input order.
C18_BatchInInputOrder ==
    op \in {"AppendRecords", "SetRecords", "DeleteRecords"} =>
        /\ \A k, l \in 1..Len(reqs) :
                k < l => /\ reqs[k].for < reqs[l].for
                         /\ reqs[k].res.err.kind = "none"
        /\ \A k \in 1..Len(reqs) :
                reqs[k].for >= 1 =>
                    /\ reqs[k].for <= Len(records)
                    /\ reqs[k].for <= idx
                    /\ reqs[k].req.ep \in {"add", "edit", "delete"}
                    /\ reqs[k].req.ep = "add"
                        => reqs[k].req = AddParams(zoneArg, records[reqs[k].for])
        /\ IsSubseq(ret, records)

W_C18_TwoAppendedInOrder ==
    /\ op = "AppendRecords"
    /\ pc = "done"
    /\ Len(records) = 2 /\ records[1] # records[2]
    /\ Len(reqs) = 2 /\ reqs[1].for = 1 /\ reqs[2].for = 2
    /\ ret = records

\* The call is past its list request.
Listed == pc \in {"loop", "done"} /\ op \in {"GetRecords", "SetRecords", "DeleteRecords"}

\* C19: SetRecords and DeleteRecords make exactly one list request per call,
\* before any add, edit or delete request; when it fails they make no further
\* request, leave the zone unchanged and return an error with an empty record
\* list; GetRecords likewise returns an empty list with the error.
C19_ListFirstAndItsFailureStops ==
    /\ (op \in {"SetRecords", "DeleteRecords"} /\ pc = "list") => reqs = <<>>
    /\ Listed =>
        /\ Len(reqs) >= 1
        /\ reqs[1].req = ListParams(zoneArg)
        /\ \A k \in 2..Len(reqs) : reqs[k].req.ep # "list"
        /\ reqs[1].res.err.kind # "none" =>
            /\ pc = "done"
            /\ Len(reqs) = 1
            /\ zone = zone0
            /\ err.kind # "none"
            /\ ret = <<>>

W_C19_SetStoppedByList ==
    /\ op = "SetRecords"
    /\ pc = "done"
    /\ Len(records) = 2
    /\ Len(reqs) = 1 /\ reqs[1].sent /\ reqs[1].res.err.kind # "none"
    /\ err.kind # "none"
    /\ ret = <<>>
    /\ zone = zone0

\* No two records of zone z share a (name, type).
UniqueKeys(z) ==
    \A a, b \in 1..Len(z) : a # b => ~(z[a].Zjt = z[b].Zjt /\ z[a].Lx = z[b].Lx)

\* No two records of the batch rs share a (name, type).
DistinctKeys(rs) ==
    \A a, b \in 1..Len(rs) : a # b => ~(rs[a].Name = rs[b].Name /\ rs[a].Type = rs[b].Type)

\* C20 as stated: if no two records of the zone share a (name, type) before a
\* SetRecords call, none do after it, for every input batch.
C20_SetKeepsKeysUnique ==
    (op = "SetRecords" /\ Returned /\ UniqueKeys(zone0)) => UniqueKeys(zone)

\* C20, amended: if no two records of the zone share a (name, type) before a
\* SetRecords call, none do during or after it, for every input batch in
\* which no two desired records have the same (name, type).
C20_SetKeepsKeysUniqueForDistinctBatch ==
    (op = "SetRecords" /\ UniqueKeys(zone0) /\ DistinctKeys(records)) => UniqueKeys(zone)

W_C20_TwoKeysCreated ==
    /\ op = "SetRecords"
    /\ Returned /\ err.kind = "none"
    /\ Len(zone0) = 1
    /\ Len(records) = 2 /\ DistinctKeys(records)
    /\ Len(zone) = 3
    /\ UniqueKeys(zone)

\* The keys of the signed parameters, and the value signed under key k.
PairKeys == {output.pairs[i].k : i \in 1..Len(output.pairs)}
PairValue(k) ==
    output.pairs[CHOOSE i \in 1..Len(output.pairs) : output.pairs[i].k = <<k>>].v

\* C21: for every record name, type and value, separators "&" and "="
\* included, the signed parameters of an add request are exactly appid, ym,
\* lx, zj, jlz, ttl and gntime, with lx, zj and jlz the record's type, name
\* and value; those of a delete request are exactly appid, ym, jxid and gntime.
C21_RequestParameterSets ==
    output.done =>
        /\ input.kind = "add" =>
              /\ Len(output.pairs) = 7
              /\ PairKeys = {<<"appid">>, <<"ym">>, <<"lx">>, <<"zj">>, <<"jlz">>,
                             <<"ttl">>, <<"gntime">>}
              /\ PairValue("lx") = input.rr.Type
              /\ PairValue("zj") = input.rr.Name
              /\ PairValue("jlz") = input.rr.Data
        /\ input.kind = "delete" =>
              /\ Len(output.pairs) = 4
              /\ PairKeys = {<<"appid">>, <<"ym">>, <<"jxid">>, <<"gntime">>}

\* The same, for records whose strings hold no "&".
NoAmpersand(s) == \A i \in 1..Len(s) : s[i] # "&"

C21_SeparatorFreeParameterSets ==
    (input.kind = "add" => NoAmpersand(input.rr.Name) /\ NoAmpersand(input.rr.Data))
        => C21_RequestParameterSets

\* The positions in the trace of goroutine g's API calls.
CallsOf(g) == {k \in 1..Len(trace) : trace[k].g = g}

\* The call of goroutine a returned before the call of goroutine b began: the
\* two calls ran in sequence, not concurrently.
RanBefore(a, b) ==
    /\ frames[a].pc = "done" /\ frames[b].pc = "done"
    /\ CallsOf(b) # {}
    /\ \A j \in CallsOf(a), k \in CallsOf(b) : j < k

\* No request of either call failed.
NoRequestFailed ==
    /\ \A k \in 1..Len(trace) : trace[k].ok
    /\ frames[1].err.kind = "none" /\ frames[2].err.kind = "none"

\* The zone as the call of goroutine a alone left it: the records the zone
\* had, followed by the records its create requests added.
AddsOf(a) == {k \in CallsOf(a) : trace[k].req.ep = "add"}

LeftBy(a, z) ==
    /\ Len(z) = Len(zone0) + Cardinality(AddsOf(a))
    /\ SubSeq(z, 1, Len(zone0)) = zone0
    /\ \A k \in AddsOf(a) :
          \E m \in (Len(zone0) + 1)..Len(z) :
              /\ z[m].Zjt = trace[k].req.zj /\ z[m].Lx = trace[k].req.lx
              /\ z[m].Jxz = trace[k].req.jlz /\ z[m].TTL = trace[k].req.ttl

\* C22: when SetRecords is called twice in sequence with the same batch and no
\* request fails, the second call makes no create, edit or delete request and
\* the zone has the records the first call left, none added.
C22_SetTwiceSameAsOnce ==
    \A a, b \in Goroutines :
        (/\ a # b
         /\ frames[a].batch = frames[b].batch
         /\ RanBefore(a, b)
         /\ NoRequestFailed) =>
            /\ \A k \in CallsOf(b) : trace[k].req.ep = "list"
            /\ LeftBy(a, zone)

W_C22_SecondSetCreatesNothing ==
    /\ frames[1].batch = frames[2].batch
    /\ RanBefore(1, 2)
    /\ NoRequestFailed
    /\ zone0 = <<>>
    /\ Created(1, 1)
    /\ Len(zone) = 1

\* A call that found the field nil under the read lock has not returned yet.
OnSlowPath(g) == gpc[g] \in {"Lock", "recheck", "deferredUnlock"}

\* The client is set and no call that found it nil is still running.
Settled == HTTPClient # "nil" /\ \A g \in Callers : ~OnSlowPath(g)

\* C23: once the HTTP client is set, no call of getHTTPClient acquires the
\* write lock.
C23_NoWriteLockOnceSet ==
    [][HTTPClient # "nil" => ~(mu.writer = 0 /\ mu'.writer # 0)]_vars

\* C23, amended: once the client is set and the calls that found it nil have
\* returned, no call acquires or holds the write lock, so that RLock never
\* waits and the callers hold the read lock together.
C23_NoWriteLockOnceSettled ==
    /\ [](Settled => mu.writer = 0)
    /\ [][Settled => Settled' /\ mu'.writer = 0]_vars

\* The first call constructed the client and returned; two later calls hold
\* the read lock at the same time.
W_C23_TwoReadersAfterInit ==
    /\ made = 1 /\ gpc[1] = "done"
    /\ Settled
    /\ {2, 3} \subseteq mu.readers
    /\ got[2] = NewClient(1)
    /\ gpc[3] = "check"

\* C24: on every path of an API call after a response was received (non-200
\* status, read error, malformed JSON, envelope code other than 1, success),
\* the response body is closed exactly once, when the call returns and not
\* before, and it was read to its end unless reading it failed.
C24_BodyClosedOnceAndDrained ==
    output.received =>
        /\ output.pc = "returned" => output.closed = 1
        /\ output.pc = "returned" /\ ~output.readErr => output.eof /\ output.pos = input.len
        /\ output.pc # "returned" => output.closed = 0

\* A response with a status other than 200 whose body was read to the end and
\* closed.
W_C24_ErrorStatusBodyDrained ==
    /\ output.pc = "returned" /\ output.received
    /\ input.o.status # StatusOK
    /\ input.len > 0
    /\ output.eof /\ output.closed = 1
    /\ output.err.kind = "transport"

\* The call failed in the signer: the time zone could not be loaded or the
\* parameters could not be joined.
SignerFailed == output.done /\ input.o.k \in {"tz", "join"}

\* C25: when the fixed time zone cannot be loaded or the parameters cannot be
\* canonicalised, the API call returns an error and no HTTP request is sent.
C25_SignerFailuresPrecedeNetwork ==
    SignerFailed =>
        /\ ~output.panicked
        /\ output.err.kind # "none"
        /\ output.sent = <<>>

\* The same for the calls through MakeApiRequestWithClient of src/client.go.
C25_WithClientSignerFailuresPrecedeNetwork ==
    ~input.earlier => C25_SignerFailuresPrecedeNetwork

====
